---- MODULE Spec2Model ----
(***************************************************************************)
(* A model of torguapi.py: the pagination/envelope helpers of a JSON:API   *)
(* style HTTP layer.  Every function of the module is stateless apart from *)
(* the context dict `aux` it may mutate and the process environment it     *)
(* reads, so one behaviour of the model is one call: Init draws the call   *)
(* (function and arguments) from bounded sets and the action of that       *)
(* function applies it, leaving the outcome in `ret` and the mutated       *)
(* context in `aux`.                                                       *)
(***************************************************************************)
EXTENDS Integers, Sequences, FiniteSets, TLC

VARIABLES pc, call, aux, environ, ret

vars == <<pc, call, aux, environ, ret>>

\* Longest query-parameter string drawn as an input.
MaxStrLen == 2
\* Largest number held by a key of an input pagination context.
MaxCount == 4
\* Largest number of rows of an input result table.
MaxRows == 2

(***************************************************************************)
(* Python values.  A str the code inspects is a sequence of characters; a  *)
(* character is a one-character string, except the two non-ASCII ones that *)
(* are written by code point.  Values that may be None are tagged.         *)
(***************************************************************************)
None == [t |-> "None"]
PyStr(s) == [t |-> "str", v |-> s]

\* Outcomes of a call.
Return(v) == [kind |-> "return", value |-> v]
Raise(e) == [kind |-> "raise", exc |-> e]

\* class TorguapiError(Exception); class TorguapiInvalidRequest(TorguapiError)
TorguapiError == "TorguapiError"
TorguapiInvalidRequest == "TorguapiInvalidRequest"

\* A dict whose order is never observed is a function; the empty dict:
EmptyDict == [k \in {} |-> 0]
\* d[k] = v
DictSet(d, k, v) == [x \in (DOMAIN d) \cup {k} |-> IF x = k THEN v ELSE d[x]]

\* Characters of Unicode category Nd: int() reads them as decimal digits.
DecimalChars == {"0", "1", "2", "3", "4", "5", "6", "7", "8", "9"}
\* U+00B2 SUPERSCRIPT TWO (Numeric_Type=Digit) and U+00BD VULGAR FRACTION ONE
\* HALF (Numeric_Type=Numeric): str.isnumeric() accepts them, int() does not.
NumericChars == DecimalChars \cup {"U+00B2", "U+00BD"}
DigitValue(c) ==
    CASE c = "0" -> 0 [] c = "1" -> 1 [] c = "2" -> 2 [] c = "3" -> 3
      [] c = "4" -> 4 [] c = "5" -> 5 [] c = "6" -> 6 [] c = "7" -> 7
      [] c = "8" -> 8 [] c = "9" -> 9

\* str.isnumeric(): every character is numeric and there is at least one.
isnumeric(s) == Len(s) > 0 /\ \A i \in 1..Len(s) : s[i] \in NumericChars

\* int(s) raises ValueError unless s is a non-empty run of decimal digits
\* (signs, blanks and underscores never get past isnumeric()).
int_raises(s) == Len(s) = 0 \/ \E i \in 1..Len(s) : s[i] \notin DecimalChars

RECURSIVE int(_)
int(s) == IF s = <<>> THEN 0
          ELSE 10 * int(SubSeq(s, 1, Len(s) - 1)) + DigitValue(s[Len(s)])

\* dict.get(key, default)
DictGet(d, k, default) == IF k \in DOMAIN d THEN d[k] ELSE default

(***************************************************************************)
(* torguapi_get_page_parameters(query_parameters)                          *)
(***************************************************************************)
torguapi_get_page_parameters(query_parameters) ==
    LET page_size == DictGet(query_parameters, "page_size", PyStr(<<"1", "0", "0">>))
        page_number == DictGet(query_parameters, "page_number", None)
        with_size == DictSet(EmptyDict, "page_size", int(page_size.v))
    IN  IF page_size # None /\ ~isnumeric(page_size.v)
          THEN Raise(TorguapiInvalidRequest)
        ELSE IF page_size # None /\ int_raises(page_size.v)
          THEN Raise("ValueError")
        ELSE IF page_size = None
          THEN Raise("KeyError")     \* page_params["page_size"] was never set
        ELSE IF int(page_size.v) < 1
          THEN Raise(TorguapiInvalidRequest)
        ELSE IF page_number # None /\ ~isnumeric(page_number.v)
          THEN Raise(TorguapiInvalidRequest)
        ELSE IF page_number # None /\ int_raises(page_number.v)
          THEN Raise("ValueError")
        ELSE IF page_number # None
          THEN Return(DictSet(with_size, "page_number", int(page_number.v)))
        ELSE Return(with_size)

(***************************************************************************)
(* calculate_page_count(aux): the context after the call, or the exception *)
(* the division raises.  Python's // floors, as \div does.                 *)
(***************************************************************************)
\* A division that truncates toward zero, as C's does.
TruncDiv(a, b) == IF a < 0 THEN 0 - ((0 - a) \div b) ELSE a \div b

FloorDiv(a, b) == a \div b

\* The formula without its "- 1".
PageCountNoMinusOne(record_count, page_size) == FloorDiv(record_count, page_size) + 1

PageCount(record_count, page_size) == FloorDiv(record_count - 1, page_size) + 1

calculate_page_count(a) ==
    IF "record_count" \in DOMAIN a /\ "page_size" \in DOMAIN a
      THEN IF a["page_size"] = 0
             THEN Raise("ZeroDivisionError")
             ELSE Return(DictSet(a, "page_count",
                                 PageCount(a["record_count"], a["page_size"])))
      ELSE Return(a)

(***************************************************************************)
(* A dict whose order json.dumps observes (links, meta, the reply body) is *)
(* a sequence of <<key, value>> pairs in insertion order.                  *)
(***************************************************************************)
OKeys(d) == {d[i][1] : i \in 1..Len(d)}
OGet(d, k) == d[CHOOSE i \in 1..Len(d) : d[i][1] = k][2]
\* d[k] = v: a new key goes last, a key already there keeps its place
OSet(d, k, v) ==
    IF k \in OKeys(d)
      THEN [i \in 1..Len(d) |-> IF d[i][1] = k THEN <<k, v>> ELSE d[i]]
      ELSE Append(d, <<k, v>>)
\* dict equality in Python ignores the order
OItems(d) == {d[i] : i \in 1..Len(d)}

\* The text of a character sequence.
RECURSIVE Text(_)
Text(s) == IF s = <<>> THEN "" ELSE Head(s) \o Text(Tail(s))

\* str.endswith("/")
EndsWithSlash(s) == Len(s) > 0 /\ s[Len(s)] = "/"

(***************************************************************************)
(* make_url_base(path), reading API_ROOT from the environment `env`.       *)
(***************************************************************************)
make_url_base(env, path) ==
    LET API_ROOT == DictGet(env, "API_ROOT", <<"/">>)
        rooted == IF ~EndsWithSlash(API_ROOT) THEN API_ROOT \o <<"/">> ELSE API_ROOT
    IN  Text(rooted) \o path

(***************************************************************************)
(* make_page_link(base_url, page_number, page_size)                        *)
(***************************************************************************)
make_page_link(base_url, page_number, page_size) ==
    base_url \o "?page_number=" \o ToString(page_number)
             \o "&page_size=" \o ToString(page_size)

(***************************************************************************)
(* make_page_links(aux, url_base)                                          *)
(***************************************************************************)
\* Off-by-one variants of the two comparisons.
HasPreviousFromOne(page_number) == page_number >= 1
HasNextThroughLast(page_number, page_count) == page_number <= page_count

HasPrevious(page_number) == page_number > 1
HasNext(page_number, page_count) == page_number < page_count

\* links["self"] = url_base, and a variant that parameterises it all the same
SelfOnlyPaged(url_base) == OSet(<<>>, "self", make_page_link(url_base, 1, 100))
SelfOnly(url_base) == OSet(<<>>, "self", url_base)

\* raise TorguapiError("page_size param missing"), and a variant raising the
\* request-validation class
PageSizeMissingAsInvalidRequest == Raise(TorguapiInvalidRequest)
PageSizeMissing == Raise(TorguapiError)

make_page_links(a, url_base) ==
    IF "page_number" \notin DOMAIN a
      THEN Return(SelfOnly(url_base))
    ELSE IF "page_size" \notin DOMAIN a
      THEN PageSizeMissing
    ELSE
      LET page_number == a["page_number"]
          page_size == a["page_size"]
          links1 == OSet(<<>>, "self", make_page_link(url_base, page_number, page_size))
      IN  IF "page_count" \in DOMAIN a
            THEN LET page_count == a["page_count"]
                     links2 == IF HasPrevious(page_number)
                                 THEN OSet(links1, "previous",
                                           make_page_link(url_base, page_number - 1, page_size))
                                 ELSE links1
                     links3 == IF HasNext(page_number, page_count)
                                 THEN OSet(links2, "next",
                                           make_page_link(url_base, page_number + 1, page_size))
                                 ELSE links2
                 IN  Return(links3)
            ELSE Return(links1)

(***************************************************************************)
(* make_meta(aux).  The loop runs over a set literal, whose iteration      *)
(* order the interpreter's string hashing decides: `order` is that order.  *)
(***************************************************************************)
MetaOrders == {<<"page_count", "record_count">>, <<"record_count", "page_count">>}

RECURSIVE make_meta_loop(_, _, _)
make_meta_loop(a, order, meta) ==
    IF order = <<>> THEN meta
    ELSE make_meta_loop(a, Tail(order),
                        IF Head(order) \in DOMAIN a
                          THEN OSet(meta, Head(order), a[Head(order)])
                          ELSE meta)

make_meta(a, order) == make_meta_loop(a, order, <<>>)

(***************************************************************************)
(* torguapi_make_links_and_meta(aux, url_path): the outcome and the        *)
(* context as the call leaves it (an exception of make_page_links comes    *)
(* after calculate_page_count has already written page_count).             *)
(***************************************************************************)
\* A variant that builds the links before it derives page_count.
torguapi_make_links_and_meta_links_first(a, env, url_path, order) ==
    LET url_base == make_url_base(env, url_path)
        links == make_page_links(a, url_base)
        counted == calculate_page_count(a)
    IN  IF links.kind = "raise"
          THEN [ret |-> links, aux |-> a]
        ELSE IF counted.kind = "raise"
          THEN [ret |-> counted, aux |-> a]
        ELSE [ret |-> Return(<<links.value, make_meta(counted.value, order)>>),
              aux |-> counted.value]

torguapi_make_links_and_meta(a, env, url_path, order) ==
    LET counted == calculate_page_count(a)
    IN  IF counted.kind = "raise"
          THEN [ret |-> counted, aux |-> a]
          ELSE LET a2 == counted.value
                   url_base == make_url_base(env, url_path)
                   links == make_page_links(a2, url_base)
                   meta == make_meta(a2, order)
               IN  IF links.kind = "raise"
                     THEN [ret |-> links, aux |-> a2]
                     ELSE [ret |-> Return(<<links.value, meta>>), aux |-> a2]

(***************************************************************************)
(* Values handed to json.dumps, and json.dumps with its default            *)
(* separators (", " and ": "); no string here needs escaping.              *)
(***************************************************************************)
JStr(s) == [t |-> "jstr", v |-> s]
JInt(n) == [t |-> "jint", v |-> n]
JList(l) == [t |-> "jlist", v |-> l]
JDict(d) == [t |-> "jdict", v |-> d]
\* http.HTTPStatus member: an IntEnum whose .value is the code
HTTPStatus(n) == [t |-> "HTTPStatus", value |-> n]
HTTPStatus_OK == HTTPStatus(200)

StrDict(d) == JDict([i \in 1..Len(d) |-> <<d[i][1], JStr(d[i][2])>>])
IntDict(d) == JDict([i \in 1..Len(d) |-> <<d[i][1], JInt(d[i][2])>>])

RECURSIVE json_dumps(_), json_items(_), json_pairs(_)
json_dumps(o) ==
    CASE o.t = "None"  -> "null"
      [] o.t = "jstr"  -> "\"" \o o.v \o "\""
      [] o.t = "jint"  -> ToString(o.v)
      [] o.t = "jlist" -> "[" \o json_items(o.v) \o "]"
      [] o.t = "jdict" -> "{" \o json_pairs(o.v) \o "}"
json_items(l) ==
    IF l = <<>> THEN ""
    ELSE json_dumps(Head(l)) \o (IF Len(l) > 1 THEN ", " ELSE "") \o json_items(Tail(l))
json_pairs(d) ==
    IF d = <<>> THEN ""
    ELSE "\"" \o Head(d)[1] \o "\": " \o json_dumps(Head(d)[2])
         \o (IF Len(d) > 1 THEN ", " ELSE "") \o json_pairs(Tail(d))

(***************************************************************************)
(* make_torguapi_json(status_code, body)                                   *)
(***************************************************************************)
Headers ==
    [k \in {"Content-Type", "Access-Control-Allow-Headers",
            "Access-Control-Allow-Origin", "Access-Control-Allow-Methods"} |->
        CASE k = "Content-Type" -> "application/vnd.api+json"
          [] k = "Access-Control-Allow-Headers" -> "Content-Type"
          [] k = "Access-Control-Allow-Origin" -> "*"
          [] k = "Access-Control-Allow-Methods" -> "GET"]

make_torguapi_json(status_code, body) ==
    IF status_code = None THEN Raise(TorguapiError)
    ELSE IF body = None THEN Raise(TorguapiError)
    ELSE Return([headers |-> Headers, statusCode |-> status_code,
                 body |-> json_dumps(body)])

(***************************************************************************)
(* torguapi_http_error(status_code, detail=None)                           *)
(***************************************************************************)
\* str() of the status code as the function takes it
StatusStr(status_code) ==
    CASE status_code.t = "HTTPStatus" -> ToString(status_code.value)
      [] status_code.t = "jint" -> ToString(status_code.v)
      [] status_code.t = "None" -> "None"

torguapi_http_error(status_code, detail) ==
    LET status == StatusStr(status_code)
        error0 == OSet(<<>>, "status", JStr(status))
        error == IF detail # None THEN OSet(error0, "detail", detail) ELSE error0
        errors == JDict(OSet(<<>>, "errors", JList(<<JDict(error)>>)))
    IN  make_torguapi_json(status_code, errors)

(***************************************************************************)
(* A pandas table: its column names and its rows.  DataFrame.empty is true *)
(* when either axis has length 0; to_dict(orient="records") gives one dict *)
(* per row.                                                                *)
(***************************************************************************)
DataFrameEmpty(df) == Len(df.columns) = 0 \/ Len(df.rows) = 0
ToDictRecords(df) ==
    JList([r \in 1..Len(df.rows) |->
             JDict([c \in 1..Len(df.columns) |-> <<df.columns[c], JInt(df.rows[r][c])>>])])

(***************************************************************************)
(* torguapi_result(result, links, meta=None)                               *)
(***************************************************************************)
\* Variants: the test without its len(meta) > 0, and an empty table answered
\* with an empty success body.
MetaGoesInBodyIfNotNone(meta) == meta # None
EmptyResultAsSuccess ==
    make_torguapi_json(HTTPStatus_OK,
                       JDict(<< <<"data", JList(<<>>)>>, <<"links", JDict(<<>>)>> >>))

MetaGoesInBody(meta) == meta # None /\ Len(meta.v) > 0
EmptyResultReply == torguapi_http_error(JInt(404), None)

torguapi_result(result, links, meta) ==
    IF DataFrameEmpty(result)
      THEN EmptyResultReply
      ELSE LET body0 == OSet(OSet(<<>>, "data", ToDictRecords(result)), "links", links)
               body == IF MetaGoesInBody(meta) THEN OSet(body0, "meta", meta) ELSE body0
           IN  make_torguapi_json(HTTPStatus_OK, JDict(body))

(***************************************************************************)
(* Inputs.                                                                 *)
(***************************************************************************)
Alphabet == {"0", "1", "2", "f", "U+00B2", "U+00BD"}
Strings == UNION {[1..n -> Alphabet] : n \in 0..MaxStrLen}
QueryValues == {None} \cup {PyStr(s) : s \in Strings}
Queries == UNION {[ks -> QueryValues] : ks \in SUBSET {"page_size", "page_number"}}

\* Contexts as a caller may hand them over: any of the four pagination keys,
\* each a number in 0..MaxCount (page_size 0 included: nothing here checks it),
\* with or without a key the helpers do not know.
ContextKeys == {"page_number", "page_size", "record_count", "page_count"}
PlainContexts == UNION {[ks -> 0..MaxCount] : ks \in SUBSET ContextKeys}
Contexts == PlainContexts \cup {DictSet(a, "extra_1", 5) : a \in PlainContexts}

UrlBases == {"https://example.com", "/foo/bar"}
UrlPaths == {"foo/bar"}
ApiRoots == {<<>>, <<"/">>, <<"/", "a", "p", "i">>, <<"/", "a", "p", "i", "/">>}
Environs == {EmptyDict} \cup {DictSet(EmptyDict, "API_ROOT", r) : r \in ApiRoots}

StatusCodes == {None, JInt(404), JInt(500), HTTPStatus(404), HTTPStatus(500)}
Details == {None, JStr("Not found")}

Columns == {<<>>, <<"x">>, <<"x", "y">>}
DataFrames ==
    UNION {{[columns |-> c, rows |-> r] : r \in [1..n -> [1..Len(c) -> {1, 2}]]} :
           <<c, n>> \in Columns \X (0..MaxRows)}

\* links and meta dicts as torguapi_make_links_and_meta hands them over
SomeLinks == {StrDict(<<>>),
              StrDict(make_page_links(DictSet(EmptyDict, "x", 0), "/foo/bar").value),
              StrDict(<< <<"self", "foo">>, <<"next", "bar">> >>)}
SomeMeta == {None, IntDict(<<>>),
             IntDict(<< <<"page_count", 3>> >>),
             IntDict(<< <<"record_count", 4>>, <<"page_count", 3>> >>)}
Bodies == {None, JDict(<<>>), JDict(<< <<"data", JList(<<>>)>> >>)}

Calls ==
    {[op |-> "torguapi_get_page_parameters", query_parameters |-> q] : q \in Queries}
    \cup {[op |-> "calculate_page_count", aux |-> a] : a \in Contexts}
    \cup {[op |-> "make_page_links", aux |-> a, url_base |-> u] :
            a \in Contexts, u \in UrlBases}
    \cup {[op |-> "make_meta", aux |-> a, order |-> o] :
            a \in Contexts, o \in MetaOrders}
    \cup {[op |-> "torguapi_make_links_and_meta", aux |-> a, url_path |-> u,
           environ |-> e, order |-> o] :
            a \in Contexts, u \in UrlPaths, e \in Environs, o \in MetaOrders}
    \cup {[op |-> "make_url_base", path |-> u, environ |-> e] :
            u \in UrlPaths, e \in Environs}
    \cup {[op |-> "make_page_link", base_url |-> u, page_number |-> n, page_size |-> m] :
            u \in UrlBases, n \in 0..MaxCount, m \in 0..MaxCount}
    \cup {[op |-> "make_torguapi_json", status_code |-> c, body |-> b] :
            c \in StatusCodes, b \in Bodies}
    \cup {[op |-> "torguapi_http_error", status_code |-> c, detail |-> d] :
            c \in StatusCodes, d \in Details}
    \cup {[op |-> "torguapi_result", result |-> r, links |-> l, meta |-> m] :
            r \in DataFrames, l \in SomeLinks, m \in SomeMeta}

Init ==
    /\ pc = "start"
    /\ call \in Calls
    /\ aux = IF "aux" \in DOMAIN call THEN call.aux ELSE EmptyDict
    /\ environ = IF "environ" \in DOMAIN call THEN call.environ ELSE EmptyDict
    /\ ret = None

GetPageParameters ==
    /\ pc = "start" /\ call.op = "torguapi_get_page_parameters"
    /\ ret' = torguapi_get_page_parameters(call.query_parameters)
    /\ pc' = "done"
    /\ UNCHANGED <<call, aux, environ>>

CalculatePageCount ==
    /\ pc = "start" /\ call.op = "calculate_page_count"
    /\ LET r == calculate_page_count(aux)
       IN  /\ ret' = IF r.kind = "raise" THEN r ELSE Return(None)
           /\ aux' = IF r.kind = "raise" THEN aux ELSE r.value
    /\ pc' = "done"
    /\ UNCHANGED <<call, environ>>

MakePageLinks ==
    /\ pc = "start" /\ call.op = "make_page_links"
    /\ ret' = make_page_links(aux, call.url_base)
    /\ pc' = "done"
    /\ UNCHANGED <<call, aux, environ>>

MakeMeta ==
    /\ pc = "start" /\ call.op = "make_meta"
    /\ ret' = Return(make_meta(aux, call.order))
    /\ pc' = "done"
    /\ UNCHANGED <<call, aux, environ>>

MakeLinksAndMeta ==
    /\ pc = "start" /\ call.op = "torguapi_make_links_and_meta"
    /\ LET r == torguapi_make_links_and_meta(aux, environ, call.url_path, call.order)
       IN  ret' = r.ret /\ aux' = r.aux
    /\ pc' = "done"
    /\ UNCHANGED <<call, environ>>

MakeUrlBase ==
    /\ pc = "start" /\ call.op = "make_url_base"
    /\ ret' = Return(make_url_base(environ, call.path))
    /\ pc' = "done"
    /\ UNCHANGED <<call, aux, environ>>

MakePageLink ==
    /\ pc = "start" /\ call.op = "make_page_link"
    /\ ret' = Return(make_page_link(call.base_url, call.page_number, call.page_size))
    /\ pc' = "done"
    /\ UNCHANGED <<call, aux, environ>>

MakeTorguapiJson ==
    /\ pc = "start" /\ call.op = "make_torguapi_json"
    /\ ret' = make_torguapi_json(call.status_code, call.body)
    /\ pc' = "done"
    /\ UNCHANGED <<call, aux, environ>>

HttpError ==
    /\ pc = "start" /\ call.op = "torguapi_http_error"
    /\ ret' = torguapi_http_error(call.status_code, call.detail)
    /\ pc' = "done"
    /\ UNCHANGED <<call, aux, environ>>

Result ==
    /\ pc = "start" /\ call.op = "torguapi_result"
    /\ ret' = torguapi_result(call.result, call.links, call.meta)
    /\ pc' = "done"
    /\ UNCHANGED <<call, aux, environ>>

Next ==
    \/ GetPageParameters
    \/ CalculatePageCount
    \/ MakePageLinks
    \/ MakeMeta
    \/ MakeLinksAndMeta
    \/ MakeUrlBase
    \/ MakePageLink
    \/ MakeTorguapiJson
    \/ HttpError
    \/ Result

Spec == Init /\ [][Next]_vars

\* What a finished call of `op` left behind.
Done(op) == pc = "done" /\ call.op = op
Returned == ret.kind = "return"
Raised(e) == ret.kind = "raise" /\ ret.exc = e
(***************************************************************************)
(* Properties.                                                             *)
(***************************************************************************)
Has(d, k) == k \in DOMAIN d
\* p = ceil(n / d): the least integer p with p * d >= n
IsCeiling(p, n, d) == p * d >= n /\ (p - 1) * d < n
\* The text of a page link, written out.
LinkText(url, page_number, page_size) ==
    url \o "?page_number=" \o ToString(page_number) \o "&page_size=" \o ToString(page_size)

\* C1: calculate_page_count on a context with record_count >= 1 and
\* page_size >= 1 sets page_count to ceil(record_count / page_size), the least
\* p with p * page_size >= record_count.
C1_PageCountIsCeiling ==
    (/\ Done("calculate_page_count")
     /\ Has(call.aux, "record_count") /\ Has(call.aux, "page_size")
     /\ call.aux["record_count"] >= 1 /\ call.aux["page_size"] >= 1)
    => /\ Returned
       /\ Has(aux, "page_count")
       /\ IsCeiling(aux["page_count"], call.aux["record_count"], call.aux["page_size"])

\* A count that does not divide evenly has been rounded up.
C1_Witness ==
    /\ Done("calculate_page_count")
    /\ Has(call.aux, "record_count") /\ Has(call.aux, "page_size")
    /\ call.aux["record_count"] = 3 /\ call.aux["page_size"] = 2
    /\ Has(aux, "page_count") /\ aux["page_count"] = 2

\* C10: calculate_page_count on a context with record_count = 0 and
\* page_size >= 1 sets page_count to 0.
C10_ZeroRecordsZeroPages ==
    (/\ Done("calculate_page_count")
     /\ Has(call.aux, "record_count") /\ Has(call.aux, "page_size")
     /\ call.aux["record_count"] = 0 /\ call.aux["page_size"] >= 1)
    => Returned /\ Has(aux, "page_count") /\ aux["page_count"] = 0

\* An empty record set with page_size 3 got page_count 0.
C10_Witness ==
    /\ Done("calculate_page_count")
    /\ Has(call.aux, "record_count") /\ call.aux["record_count"] = 0
    /\ Has(call.aux, "page_size") /\ call.aux["page_size"] = 3
    /\ Has(aux, "page_count") /\ aux["page_count"] = 0
\* A string of ASCII decimal digits: what a query gives for an integer.
IsDecimalInteger(s) == Len(s) > 0 /\ \A i \in 1..Len(s) : s[i] \in DecimalChars

\* C2: torguapi_get_page_parameters, given a page_size that is a numeric
\* string for an integer s >= 1, returns page_size = s (or, failing fast on
\* page_number, TorguapiInvalidRequest); given "0" or any string that is not
\* such a number it raises TorguapiInvalidRequest and no other kind of error.
C2_PageSizeParsedOrInvalidRequest ==
    (/\ Done("torguapi_get_page_parameters")
     /\ Has(call.query_parameters, "page_size")
     /\ call.query_parameters["page_size"] # None)
    => LET s == call.query_parameters["page_size"].v
       IN  IF IsDecimalInteger(s) /\ int(s) >= 1
             THEN \/ Returned /\ ret.value["page_size"] = int(s)
                  \/ Raised(TorguapiInvalidRequest)
             ELSE Raised(TorguapiInvalidRequest)

\* The context has page_number and page_size: the links are paged.
PagedLinks ==
    /\ Done("make_page_links")
    /\ Has(aux, "page_number") /\ Has(aux, "page_size")

\* C3, as claimed: make_page_links on a context with page_number and page_size
\* includes `previous` exactly when page_number > 1, whatever else is present.
C3_PreviousOnPageNumberAlone ==
    PagedLinks =>
       /\ Returned
       /\ "previous" \in OKeys(ret.value) <=> aux["page_number"] > 1

\* C3, amended: `previous` is included exactly when page_count is present and
\* page_number > 1, and then points to page_number - 1 with the same page_size.
C3_PreviousNeedsPageCount ==
    PagedLinks =>
       /\ Returned
       /\ "previous" \in OKeys(ret.value)
             <=> (Has(aux, "page_count") /\ aux["page_number"] > 1)
       /\ "previous" \in OKeys(ret.value)
             => OGet(ret.value, "previous")
                  = LinkText(call.url_base, aux["page_number"] - 1, aux["page_size"])

\* Page 2 of a context with a page_count got its `previous` link.
C3_Witness ==
    /\ PagedLinks /\ Has(aux, "page_count") /\ aux["page_number"] = 2
    /\ Returned /\ "previous" \in OKeys(ret.value)

\* C4: make_page_links on a context with page_number and page_size includes
\* `next` only if page_count is present and page_number < page_count, and then
\* it points to page_number + 1 with the same page_size; without page_count
\* there is never a `next`.
C4_NextOnlyBelowPageCount ==
    PagedLinks =>
       /\ Returned
       /\ "next" \in OKeys(ret.value)
             => /\ Has(aux, "page_count") /\ aux["page_number"] < aux["page_count"]
                /\ OGet(ret.value, "next")
                     = LinkText(call.url_base, aux["page_number"] + 1, aux["page_size"])
       /\ ~Has(aux, "page_count") => "next" \notin OKeys(ret.value)

\* A page before the last got its `next` link.
C4_Witness ==
    /\ PagedLinks /\ Has(aux, "page_count")
    /\ aux["page_number"] = 1 /\ aux["page_count"] = 3
    /\ Returned /\ "next" \in OKeys(ret.value)

\* C5: make_page_links on a context without page_number returns exactly
\* {self: url_base}, whatever other keys the context holds.
C5_NoPageNumberSelfOnly ==
    (Done("make_page_links") /\ ~Has(aux, "page_number"))
    => Returned /\ ret.value = << <<"self", call.url_base>> >>

\* A context with every key but page_number was answered with the bare URL.
C5_Witness ==
    /\ Done("make_page_links") /\ ~Has(aux, "page_number")
    /\ Has(aux, "page_size") /\ Has(aux, "record_count") /\ Has(aux, "page_count")
    /\ Returned /\ Len(ret.value) = 1

\* C8: make_page_links on a context with page_number but no page_size raises
\* TorguapiError itself (not TorguapiInvalidRequest) and returns no links.
C8_MissingPageSizeRaises ==
    (Done("make_page_links") /\ Has(aux, "page_number") /\ ~Has(aux, "page_size"))
    => Raised(TorguapiError)

\* A context with page_number and page_count but no page_size was refused.
C8_Witness ==
    /\ Done("make_page_links") /\ Has(aux, "page_number") /\ ~Has(aux, "page_size")
    /\ Has(aux, "page_count") /\ ret.kind = "raise"

\* The number of an envelope's statusCode.
StatusNumber(status_code) ==
    IF status_code.t = "HTTPStatus" THEN status_code.value ELSE status_code.v

\* C6: torguapi_result on an empty table returns the 404 error envelope, body
\* {"errors": [{"status": "404"}]}, whatever links and meta are.
C6_EmptyResultIs404 ==
    (Done("torguapi_result") /\ DataFrameEmpty(call.result))
    => /\ Returned
       /\ StatusNumber(ret.value.statusCode) = 404
       /\ ret.value.body = "{\"errors\": [{\"status\": \"404\"}]}"

\* A table with columns and no rows, with links and a meta given, got the 404.
C6_Witness ==
    /\ Done("torguapi_result")
    /\ Len(call.result.columns) = 2 /\ Len(call.result.rows) = 0
    /\ call.links.v # <<>> /\ call.meta # None /\ call.meta.v # <<>>
    /\ Returned /\ StatusNumber(ret.value.statusCode) = 404

\* C7: torguapi_result on a non-empty table returns HTTPStatus.OK with a body
\* of `data` and `links`, and of `meta` exactly when meta is neither None nor
\* empty.
C7_MetaOnlyWhenNonEmpty ==
    (Done("torguapi_result") /\ ~DataFrameEmpty(call.result))
    => /\ Returned
       /\ ret.value.statusCode = HTTPStatus(200)
       /\ ret.value.body =
            "{\"data\": " \o json_dumps(ToDictRecords(call.result))
            \o ", \"links\": " \o json_dumps(call.links)
            \o (IF call.meta # None /\ call.meta.v # <<>>
                  THEN ", \"meta\": " \o json_dumps(call.meta) ELSE "")
            \o "}"

\* An empty meta dict was left out of the body of a non-empty table.
C7_Witness ==
    /\ Done("torguapi_result") /\ ~DataFrameEmpty(call.result)
    /\ call.meta = IntDict(<<>>) /\ call.links = StrDict(<<>>)
    /\ call.result = [columns |-> <<"x">>, rows |-> << <<1>> >>]
    /\ Returned /\ ret.value.body = "{\"data\": [{\"x\": 1}], \"links\": {}}"

\* C9: torguapi_make_links_and_meta on a context with page_number,
\* page_size >= 1 and record_count >= 1 leaves page_count =
\* ceil(record_count / page_size) in the context, returns the meta
\* {page_count, record_count} and nothing else, and decides next and previous
\* against the page_count it has just derived.
C9_PageCountDerivedFirst ==
    (/\ Done("torguapi_make_links_and_meta")
     /\ Has(call.aux, "page_number") /\ Has(call.aux, "page_size")
     /\ Has(call.aux, "record_count")
     /\ call.aux["page_size"] >= 1 /\ call.aux["record_count"] >= 1)
    => /\ Returned
       /\ Has(aux, "page_count")
       /\ IsCeiling(aux["page_count"], call.aux["record_count"], call.aux["page_size"])
       /\ Len(ret.value[2]) = 2
       /\ OItems(ret.value[2]) = {<<"page_count", aux["page_count"]>>,
                                  <<"record_count", call.aux["record_count"]>>}
       /\ "next" \in OKeys(ret.value[1]) <=> call.aux["page_number"] < aux["page_count"]
       /\ "previous" \in OKeys(ret.value[1]) <=> call.aux["page_number"] > 1

\* A context came with a stale page_count of 4; the count derived is 2, so
\* page 2 is the last page and has no `next`.
C9_Witness ==
    /\ Done("torguapi_make_links_and_meta")
    /\ Has(call.aux, "page_count") /\ call.aux["page_count"] = 4
    /\ Has(call.aux, "page_number") /\ call.aux["page_number"] = 2
    /\ Has(aux, "page_count") /\ aux["page_count"] = 2
    /\ Returned /\ OKeys(ret.value[1]) = {"self", "previous"}
====
